---- MODULE Spec2Model ----
(***************************************************************************)
(* A model of mcp-coder-rs/src/code_analyzer.rs: CodeAnalyzer::analyze_file *)
(* and the passes it runs (the cursor walks over the syntax tree, the      *)
(* line-oriented dependency and issue passes, the metrics).                *)
(*                                                                         *)
(* Strings are TLA+ strings; a character is a string of length 1.  An f64  *)
(* is a record [c, v]: c is the class ("fin", "nan", "pinf", "ninf") and v *)
(* the value in units of 1/FScale.  A syntax tree is a record [kind,       *)
(* parent] of two sequences over the nodes 1..n, node 1 being the root and *)
(* the children of a node being ordered by their index.                    *)
(***************************************************************************)
EXTENDS Integers, Sequences, FiniteSets, TLC

\* ------------------------------------------------------------------ bounds
\* nodes below the root in the trees the walks are checked on
MaxNodes == 2
\* nodes below the root in the trees the parser returns inside analyze_file
MaxParsedNodes == 1
\* lines of the sources the dependency pass is checked on
MaxLines == 2
\* lines_of_code values the maintainability formula is checked on: 0..MaxLoc
MaxLoc == 12
\* complexity values the formula is checked on: 1 + k * CxStep, k in 0..MaxCxSteps
MaxCxSteps == 9
CxStep == 100

\* ------------------------------------------------------------------ f64
\* resolution of the fixed-point picture of an f64
FScale == 1000

Fin(v) == [c |-> "fin", v |-> v]
NaN == [c |-> "nan", v |-> 0]
PInf == [c |-> "pinf", v |-> 0]
NInf == [c |-> "ninf", v |-> 0]

\* `n as f64` for a usize n
FFromInt(n) == Fin(n * FScale)

\* a decimal literal such as 5.2 == FLit(52, 10)
FLit(num, den) == Fin((num * FScale) \div den)

FSign(a) == CASE a.c = "pinf" -> 1
              [] a.c = "ninf" -> -1
              [] a.c = "fin" -> (IF a.v > 0 THEN 1 ELSE IF a.v < 0 THEN -1 ELSE 0)
              [] OTHER -> 0

FNeg(a) == CASE a.c = "fin" -> Fin(-a.v)
             [] a.c = "pinf" -> NInf
             [] a.c = "ninf" -> PInf
             [] OTHER -> NaN

\* IEEE 754 addition: inf + (-inf) is NaN, NaN is contagious
FAdd(a, b) ==
    IF a.c = "nan" \/ b.c = "nan" THEN NaN
    ELSE IF a.c = "fin" /\ b.c = "fin" THEN Fin(a.v + b.v)
    ELSE IF a.c = "fin" THEN b
    ELSE IF b.c = "fin" THEN a
    ELSE IF a.c = b.c THEN a
    ELSE NaN

FSub(a, b) == FAdd(a, FNeg(b))

\* IEEE 754 multiplication: 0 * inf is NaN
FMul(a, b) ==
    IF a.c = "nan" \/ b.c = "nan" THEN NaN
    ELSE IF a.c = "fin" /\ b.c = "fin" THEN Fin((a.v * b.v) \div FScale)
    ELSE IF FSign(a) * FSign(b) > 0 THEN PInf
    ELSE IF FSign(a) * FSign(b) < 0 THEN NInf
    ELSE NaN

FRank(a) == CASE a.c = "pinf" -> 1 [] a.c = "ninf" -> -1 [] OTHER -> 0

\* a < b on f64: false whenever either side is NaN
FLess(a, b) ==
    IF a.c = "nan" \/ b.c = "nan" THEN FALSE
    ELSE IF a.c = "fin" /\ b.c = "fin" THEN a.v < b.v
    ELSE FRank(a) < FRank(b)

\* f64::max and f64::min: when one argument is NaN the other is returned
FMax(a, b) == IF a.c = "nan" THEN b
              ELSE IF b.c = "nan" THEN a
              ELSE IF FLess(a, b) THEN b ELSE a

FMin(a, b) == IF a.c = "nan" THEN b
              ELSE IF b.c = "nan" THEN a
              ELSE IF FLess(b, a) THEN b ELSE a

\* usize::MAX on a 64-bit target is beyond the model's integers; the cast of
\* +inf saturates to this stand-in, which no finite value of the model reaches
UsizeMax == 2000000000

\* a conversion that gives the largest integer strictly below x
FToUsizeBelow(a) ==
    IF a.c \in {"nan", "ninf"} THEN 0
    ELSE IF a.c = "pinf" THEN UsizeMax
    ELSE IF a.v <= 0 THEN 0 ELSE (a.v - 1) \div FScale

\* `x as usize` for an f64 x: truncates toward zero, saturates, NaN gives 0
FToUsize(a) ==
    IF a.c \in {"nan", "ninf"} THEN 0
    ELSE IF a.c = "pinf" THEN UsizeMax
    ELSE IF a.v < 0 THEN 0 ELSE a.v \div FScale

RECURSIVE ILog2(_)
ILog2(n) == IF n < 2 THEN 0 ELSE 1 + ILog2(n \div 2)

RECURSIVE Pow2(_)
Pow2(k) == IF k = 0 THEN 1 ELSE 2 * Pow2(k - 1)

\* the fraction of log2 of a mantissa x in [LnOne, 2*LnOne), bit by bit
LnOne == Pow2(14)
RECURSIVE LnFrac(_, _)
LnFrac(x, i) ==
    IF i = 0 THEN 0
    ELSE LET y == (x * x) \div LnOne
         IN IF y >= 2 * LnOne
            THEN Pow2(i - 1) + LnFrac(y \div 2, i - 1)
            ELSE LnFrac(y, i - 1)

\* ln(n) for an integer n >= 1, in units of 1/FScale: log2(n) to 10 binary
\* places, times ln 2 = 0.69315
LnFix(n) ==
    LET k == ILog2(n)
        m == (n * LnOne) \div Pow2(k)
        l == k * Pow2(10) + LnFrac(m, 10)
    IN (((l * 69315) \div Pow2(10)) * FScale) \div 100000

\* f64::ln of an integer-valued f64: ln(0) is -inf, ln of a negative is NaN
FLn(a) ==
    IF a.c \in {"nan", "ninf"} THEN NaN
    ELSE IF a.c = "pinf" THEN PInf
    ELSE IF a.v = 0 THEN NInf
    ELSE IF a.v < 0 THEN NaN
    ELSE Fin(LnFix(a.v \div FScale))

FFinite(a) == a.c = "fin"

\* ------------------------------------------------------------------ str
Char(s, i) == SubSeq(s, i, i)

\* s[i..j] (1-based, inclusive); the empty string when i > j
Sub(s, i, j) == IF i > j THEN "" ELSE SubSeq(s, i, j)

\* char::is_whitespace, on the characters the sources here contain
IsWhitespace(c) == c \in {" ", "\t", "\r", "\n"}

\* str::starts_with
starts_with(s, p) == Len(s) >= Len(p) /\ Sub(s, 1, Len(p)) = p

\* str::find: the 0-based offset of the first occurrence of p in s, -1 for None
find(s, p) ==
    LET hits == {i \in 0..(Len(s) - Len(p)) : Sub(s, i + 1, i + Len(p)) = p}
    IN IF hits = {} THEN -1 ELSE CHOOSE i \in hits : \A j \in hits : i <= j

\* str::contains
contains(s, p) == find(s, p) >= 0

\* the characters of the sources below that UTF-8 encodes in two bytes
TwoByteChars == {"é"}

\* str::len: the length of s in bytes
len(s) == Len(s) + Cardinality({i \in 1..Len(s) : Char(s, i) \in TwoByteChars})

\* the offset of the first match counted in characters, not bytes
find_offset_chars(s, p) == find(s, p)

\* str::find as the code reads it: the byte offset of the first match, -1 for None
find_offset(s, p) == IF find(s, p) < 0 THEN -1 ELSE len(Sub(s, 1, find(s, p)))

\* str::trim: leading and trailing whitespace removed
trim(s) ==
    LET keep == {i \in 1..Len(s) : ~IsWhitespace(Char(s, i))}
    IN IF keep = {} THEN ""
       ELSE Sub(s, CHOOSE i \in keep : \A j \in keep : i <= j,
                   CHOOSE i \in keep : \A j \in keep : i >= j)

\* str::trim_matches(c): every leading and trailing c removed
trim_matches(s, c) ==
    LET keep == {i \in 1..Len(s) : Char(s, i) # c}
    IN IF keep = {} THEN ""
       ELSE Sub(s, CHOOSE i \in keep : \A j \in keep : i <= j,
                   CHOOSE i \in keep : \A j \in keep : i >= j)

\* str::strip_prefix(p), for an s that starts with p
strip_prefix(s, p) == Sub(s, Len(p) + 1, Len(s))

\* s.split(sep).next(): the part of s before the first sep, s when there is none
split_first(s, sep) ==
    IF find(s, sep) < 0 THEN s ELSE Sub(s, 1, find(s, sep))

\* s.split_whitespace().next(): the first maximal run of non-whitespace
\* characters, NoToken for None
NoToken == "<None>"
split_whitespace_first(s) ==
    LET keep == {i \in 1..Len(s) : ~IsWhitespace(Char(s, i))}
        first == CHOOSE i \in keep : \A j \in keep : i <= j
        stops == {i \in first..Len(s) : IsWhitespace(Char(s, i))}
    IN IF keep = {} THEN NoToken
       ELSE IF stops = {} THEN Sub(s, first, Len(s))
       ELSE Sub(s, first, (CHOOSE i \in stops : \A j \in stops : i <= j) - 1)

\* lines as str::split('\n') would give them: a final empty piece is kept
RECURSIVE lines_split(_)
lines_split(s) ==
    IF find(s, "\n") < 0 THEN <<s>>
    ELSE <<Sub(s, 1, find(s, "\n"))>> \o lines_split(Sub(s, find(s, "\n") + 2, Len(s)))

\* str::lines: split at "\n", a trailing "\r" of a line removed, no final
\* empty line
RECURSIVE lines(_)
lines(s) ==
    IF s = "" THEN <<>>
    ELSE LET nl == find(s, "\n")
             raw == IF nl < 0 THEN s ELSE Sub(s, 1, nl)
             rest == IF nl < 0 THEN "" ELSE Sub(s, nl + 2, Len(s))
             line == IF Len(raw) > 0 /\ Char(raw, Len(raw)) = "\r"
                     THEN Sub(raw, 1, Len(raw) - 1) ELSE raw
         IN <<line>> \o lines(rest)

\* the bytes the sources here contain, in ascending byte order
ByteOrder == "\t\n\r !\"#'(),./0123456789:;=_abcdefghijklmnopqrstuvwxyz{}"
Ord(c) == CHOOSE i \in 1..Len(ByteOrder) : Char(ByteOrder, i) = c

\* String's Ord: a < b byte-wise, a proper prefix before its extensions
RECURSIVE StrLess(_, _)
StrLess(a, b) ==
    IF b = "" THEN FALSE
    ELSE IF a = "" THEN TRUE
    ELSE IF Char(a, 1) # Char(b, 1) THEN Ord(Char(a, 1)) < Ord(Char(b, 1))
    ELSE StrLess(Sub(a, 2, Len(a)), Sub(b, 2, Len(b)))

\* Vec::sort: the elements in ascending order, equal elements kept
RECURSIVE Insert(_, _)
Insert(sorted, x) ==
    IF sorted = <<>> THEN <<x>>
    ELSE IF StrLess(x, Head(sorted)) THEN <<x>> \o sorted
    ELSE <<Head(sorted)>> \o Insert(Tail(sorted), x)

RECURSIVE sort(_)
sort(v) == IF v = <<>> THEN <<>> ELSE Insert(sort(Tail(v)), Head(v))

\* Vec::dedup: of every run of consecutive equal elements the first is kept
RECURSIVE dedup(_)
dedup(v) ==
    IF Len(v) <= 1 THEN v
    ELSE IF v[1] = v[2] THEN dedup(Tail(v))
    ELSE <<v[1]>> \o dedup(Tail(v))

\* ------------------------------------------------------------------ trees
\* the parser analyze_file selects for a language; NoParser for the `_` arm
NoParser == "none"
\* a match whose last arm falls back to the Rust parser
parser_for_default(language) ==
    CASE language \in {"javascript", "typescript"} -> "js_parser"
      [] language = "python" -> "python_parser"
      [] OTHER -> "rust_parser"

parser_for(language) ==
    CASE language = "rust" -> "rust_parser"
      [] language \in {"javascript", "typescript"} -> "js_parser"
      [] language = "python" -> "python_parser"
      [] OTHER -> NoParser

\* the kind of the root node each grammar gives a tree
RootKind(parser) ==
    CASE parser = "rust_parser" -> "source_file"
      [] parser = "js_parser" -> "program"
      [] OTHER -> "module"

\* the node kinds below the root that each grammar can produce, among them
\* every kind the walks look for, one unclassified kind and ERROR
NodeKinds(parser) ==
    CASE parser = "rust_parser" ->
           {"function_item", "struct_item", "impl_item", "if_expression",
            "if_let_expression", "match_expression", "while_expression",
            "for_expression", "loop_expression", "ERROR"}
      [] parser = "js_parser" ->
           {"function_declaration", "class_declaration", "if_statement",
            "switch_statement", "try_statement", "while_statement",
            "for_statement", "statement_block", "ERROR"}
      [] OTHER ->
           {"function_definition", "class_definition", "if_statement",
            "while_statement", "for_statement", "try_statement", "block",
            "ERROR"}

\* the trees of a grammar with exactly n nodes below the root
TreesOfSize(parser, n) ==
    {[kind |-> <<RootKind(parser)>> \o k, parent |-> <<0>> \o p] :
        k \in [1..n -> NodeKinds(parser)],
        p \in {q \in [1..n -> 1..(n + 1)] : \A i \in 1..n : q[i] <= i}}

Trees(parser, max) == UNION {TreesOfSize(parser, n) : n \in 0..max}

Nodes(t) == 1..Len(t.kind)

\* goto_first_child that does not enter an ERROR node
goto_first_child_skip_error(t, i) ==
    LET cs == {j \in Nodes(t) : t.parent[j] = i}
    IN IF cs = {} \/ t.kind[i] = "ERROR" THEN 0
       ELSE CHOOSE j \in cs : \A k \in cs : j <= k

\* goto_first_child that lands on the last child
goto_first_child_last(t, i) ==
    LET cs == {j \in Nodes(t) : t.parent[j] = i}
    IN IF cs = {} THEN 0 ELSE CHOOSE j \in cs : \A k \in cs : j >= k

\* TreeCursor::goto_first_child from node i: the first child, 0 when there is none
goto_first_child(t, i) ==
    LET cs == {j \in Nodes(t) : t.parent[j] = i}
    IN IF cs = {} THEN 0 ELSE CHOOSE j \in cs : \A k \in cs : j <= k

\* goto_next_sibling that never finds a sibling
goto_next_sibling_never(t, i) == 0

\* TreeCursor::goto_next_sibling from node i: 0 when i is the last child
goto_next_sibling(t, i) ==
    LET ss == {j \in Nodes(t) : t.parent[j] = t.parent[i] /\ j > i}
    IN IF ss = {} THEN 0 ELSE CHOOSE j \in ss : \A k \in ss : j <= k

\* ------------------------------------------------------------------ walks
NoKind == "(return 0)"

\* the kind count_functions compares a node's kind with
function_kind(language) ==
    CASE language = "rust" -> "function_item"
      [] language \in {"javascript", "typescript"} -> "function_declaration"
      [] language = "python" -> "function_definition"
      [] OTHER -> NoKind

\* the kind count_structs compares a node's kind with
struct_kind(language) ==
    CASE language = "rust" -> "struct_item"
      [] language \in {"javascript", "typescript"} -> "class_declaration"
      [] language = "python" -> "class_definition"
      [] OTHER -> NoKind

\* count_recursive, for the kind `wanted`: the node under the cursor, then its
\* first child and every next sibling of that child
RECURSIVE count_recursive(_, _, _)
RECURSIVE count_siblings(_, _, _)
count_recursive(t, i, wanted) ==
    IF wanted = NoKind THEN 0
    ELSE (IF t.kind[i] = wanted THEN 1 ELSE 0)
         + (IF goto_first_child(t, i) # 0
            THEN count_siblings(t, goto_first_child(t, i), wanted)
            ELSE 0)

count_siblings(t, j, wanted) ==
    count_recursive(t, j, wanted)
    + (IF goto_next_sibling(t, j) # 0
       THEN count_siblings(t, goto_next_sibling(t, j), wanted)
       ELSE 0)

count_functions(t, language) == count_recursive(t, 1, function_kind(language))

count_structs(t, language) == count_recursive(t, 1, struct_kind(language))

\* complexity_weight with every control flow kind in one arm that adds 1
complexity_weight_flat(kind) ==
    IF kind \in {"if_expression", "if_let_expression", "match_expression",
                 "while_expression", "for_expression", "loop_expression",
                 "if_statement", "while_statement", "for_statement",
                 "switch_statement", "try_statement"}
    THEN FLit(1, 1) ELSE FLit(0, 1)

\* what one node adds to the complexity: the match on cursor.node().kind()
complexity_weight(kind) ==
    CASE kind \in {"if_expression", "if_let_expression", "match_expression"} -> FLit(1, 1)
      [] kind \in {"while_expression", "for_expression", "loop_expression"} -> FLit(2, 1)
      [] kind \in {"if_statement", "while_statement", "for_statement"} -> FLit(1, 1)
      [] kind \in {"switch_statement", "try_statement"} -> FLit(1, 1)
      [] OTHER -> FLit(0, 1)

RECURSIVE complexity_recursive(_, _)
RECURSIVE complexity_siblings(_, _)
complexity_recursive(t, i) ==
    FAdd(complexity_weight(t.kind[i]),
         IF goto_first_child(t, i) # 0
         THEN complexity_siblings(t, goto_first_child(t, i))
         ELSE FLit(0, 1))

complexity_siblings(t, j) ==
    FAdd(complexity_recursive(t, j),
         IF goto_next_sibling(t, j) # 0
         THEN complexity_siblings(t, goto_next_sibling(t, j))
         ELSE FLit(0, 1))

\* base_complexity with the walk's own initial value, 0.0
base_complexity_zero == FLit(0, 1)

\* the base complexity of a file
base_complexity == FLit(1, 1)

calculate_complexity(t, language) == FAdd(base_complexity, complexity_recursive(t, 1))

\* ------------------------------------------------------------------ passes
\* the entries one line adds to `dependencies`, per arm of the match on language
rust_dependency(line) ==
    IF starts_with(trim(line), "use ")
    THEN LET dep == split_first(strip_prefix(trim(line), "use "), "::")
         IN IF ~starts_with(dep, "crate") /\ ~starts_with(dep, "super")
               /\ ~starts_with(dep, "self")
            THEN <<dep>> ELSE <<>>
    ELSE <<>>

javascript_dependency(line) ==
    IF starts_with(trim(line), "import ")
    THEN IF find(line, " from ") >= 0
         THEN LET from_pos == find(line, " from ")
                  dep == trim_matches(trim_matches(
                             trim(Sub(line, from_pos + 7, Len(line))), "\""), "'")
              IN IF ~starts_with(dep, ".") THEN <<dep>> ELSE <<>>
         ELSE <<>>
    ELSE IF starts_with(trim(line), "const ") /\ contains(line, "require(")
    THEN LET start == find(line, "require(")
             end == find(Sub(line, start + 1, Len(line)), ")")
         IN IF end >= 0
            THEN LET dep == trim_matches(trim_matches(
                                trim(Sub(line, start + 9, start + end)), "\""), "'")
                 IN IF ~starts_with(dep, ".") THEN <<dep>> ELSE <<>>
            ELSE <<>>
    ELSE <<>>

python_dependency(line) ==
    IF starts_with(trim(line), "import ")
    THEN LET dep == split_whitespace_first(strip_prefix(trim(line), "import "))
         IN IF dep # NoToken THEN <<dep>> ELSE <<>>
    ELSE IF starts_with(trim(line), "from ")
    THEN LET dep == split_whitespace_first(strip_prefix(trim(line), "from "))
         IN IF dep # NoToken THEN <<dep>> ELSE <<>>
    ELSE <<>>

line_dependency(line, language) ==
    CASE language = "rust" -> rust_dependency(line)
      [] language \in {"javascript", "typescript"} -> javascript_dependency(line)
      [] language = "python" -> python_dependency(line)
      [] OTHER -> <<>>

\* the pushes of the loop over content.lines(), in order
RECURSIVE collect_dependencies(_, _)
collect_dependencies(ls, language) ==
    IF ls = <<>> THEN <<>>
    ELSE line_dependency(Head(ls), language) \o collect_dependencies(Tail(ls), language)

\* sort_dedup without the dedup call
sort_only(dependencies) == sort(dependencies)

\* the two calls that end extract_dependencies
sort_dedup(dependencies) == dedup(sort(dependencies))

extract_dependencies(content, language) ==
    sort_dedup(collect_dependencies(lines(content), language))

\* Option<usize>: None
None == -1

CodeIssue(severity, message, line, column) ==
    [severity |-> severity, message |-> message, line |-> line, column |-> column]

\* the line length above which find_issues reports a line
MaxLineLen == 100

\* the first loop of find_issues, over the lines from number n on
RECURSIVE long_line_issues(_, _)
long_line_issues(ls, n) ==
    IF ls = <<>> THEN <<>>
    ELSE (IF len(Head(ls)) > MaxLineLen
          THEN <<CodeIssue("warning",
                           "Line too long (" \o ToString(len(Head(ls))) \o " characters)",
                           n, MaxLineLen)>>
          ELSE <<>>)
         \o long_line_issues(Tail(ls), n + 1)

\* the issue the language's check raises on one line, if any
language_issue(line, n, language) ==
    CASE language = "rust" ->
           IF contains(line, ".unwrap()")
           THEN <<CodeIssue("warning",
                            "Consider using proper error handling instead of unwrap()",
                            n, find_offset(line, ".unwrap()"))>>
           ELSE <<>>
      [] language \in {"javascript", "typescript"} ->
           IF contains(line, "console.log")
           THEN <<CodeIssue("info",
                            "Consider removing console.log in production code",
                            n, find_offset(line, "console.log"))>>
           ELSE <<>>
      [] language = "python" ->
           IF starts_with(trim(line), "print(")
           THEN <<CodeIssue("info", "Consider using logging instead of print",
                            n, find_offset(line, "print("))>>
           ELSE <<>>
      [] OTHER -> <<>>

RECURSIVE language_issues(_, _, _)
language_issues(ls, n, language) ==
    IF ls = <<>> THEN <<>>
    ELSE language_issue(Head(ls), n, language)
         \o language_issues(Tail(ls), n + 1, language)

\* the two loops numbering the lines from 0
find_issues_from_zero(content, language) ==
    long_line_issues(lines(content), 0) \o language_issues(lines(content), 0, language)

find_issues(content, language) ==
    long_line_issues(lines(content), 1) \o language_issues(lines(content), 1, language)

\* the filter applied to the line as it is, without the trim
is_comment_line_untrimmed(line, language) ==
    CASE language \in {"rust", "javascript", "typescript"} -> starts_with(line, "//")
      [] language = "python" -> starts_with(line, "#")
      [] OTHER -> FALSE

\* the filter of calculate_metrics: is this line a comment line
is_comment_line(line, language) ==
    CASE language = "rust" ->
           starts_with(trim(line), "//") \/ starts_with(trim(line), "///")
      [] language \in {"javascript", "typescript"} -> starts_with(trim(line), "//")
      [] language = "python" -> starts_with(trim(line), "#")
      [] OTHER -> FALSE

\* IEEE 754 division of two finite values with a non-zero divisor
FDiv(a, b) == Fin((a.v * FScale) \div b.v)

\* clamp_index without the clamp
clamp_index_none(x) == x

\* the clamp that ends calculate_metrics: x.max(0.0).min(100.0)
clamp_index(x) == FMin(FMax(x, FLit(0, 1)), FLit(100, 1))

\* 171.0 - 5.2 * ln(loc) - 0.23 * complexity + 16.2 * ln(loc), left to right
raw_maintainability(lines_of_code, cyclomatic_complexity) ==
    FAdd(FSub(FSub(FLit(171, 1),
                   FMul(FLit(52, 10), FLn(FFromInt(lines_of_code)))),
              FMul(FLit(23, 100), FFromInt(cyclomatic_complexity))),
         FMul(FLit(162, 10), FLn(FFromInt(lines_of_code))))

maintainability_index(lines_of_code, cyclomatic_complexity) ==
    clamp_index(raw_maintainability(lines_of_code, cyclomatic_complexity))

\* calculate_metrics without the subtraction of the comment lines
calculate_metrics_all_lines(content, t, language) ==
    LET ls == lines(content)
        total_lines == Len(ls)
        comment_lines ==
            Cardinality({i \in 1..total_lines : is_comment_line(ls[i], language)})
        cyclomatic_complexity == FToUsize(calculate_complexity(t, language))
    IN [cyclomatic_complexity |-> cyclomatic_complexity,
        lines_of_code |-> total_lines,
        comment_ratio |-> IF total_lines > 0
                          THEN FDiv(FFromInt(comment_lines), FFromInt(total_lines))
                          ELSE FLit(0, 1),
        maintainability_index |->
            maintainability_index(total_lines, cyclomatic_complexity)]

calculate_metrics(content, t, language) ==
    LET ls == lines(content)
        total_lines == Len(ls)
        comment_lines ==
            Cardinality({i \in 1..total_lines : is_comment_line(ls[i], language)})
        comment_ratio == IF total_lines > 0
                         THEN FDiv(FFromInt(comment_lines), FFromInt(total_lines))
                         ELSE FLit(0, 1)
        cyclomatic_complexity == FToUsize(calculate_complexity(t, language))
        lines_of_code == total_lines - comment_lines
    IN [cyclomatic_complexity |-> cyclomatic_complexity,
        lines_of_code |-> lines_of_code,
        comment_ratio |-> comment_ratio,
        maintainability_index |->
            maintainability_index(lines_of_code, cyclomatic_complexity)]

\* Path::extension of the last component of a path: NoExtension for None (no
\* ".", or only a leading "." in the file name)
NoExtension == "<None>"
RECURSIVE rfind(_, _)
rfind(s, c) == IF s = "" THEN 0
               ELSE IF Char(s, Len(s)) = c THEN Len(s)
               ELSE rfind(Sub(s, 1, Len(s) - 1), c)

file_name(path) == Sub(path, rfind(path, "/") + 1, Len(path))

\* what follows the last "." of the path, wherever that "." is
extension_after_dot(path) ==
    IF rfind(path, ".") = 0 THEN NoExtension
    ELSE Sub(path, rfind(path, ".") + 1, Len(path))

extension(path) ==
    LET name == file_name(path)
        dot == rfind(name, ".")
    IN IF name = ".." \/ dot <= 1 THEN NoExtension
       ELSE Sub(name, dot + 1, Len(name))

detect_language(file_path) ==
    CASE extension(file_path) = "rs" -> "rust"
      [] extension(file_path) \in {"js", "mjs"} -> "javascript"
      [] extension(file_path) = "ts" -> "typescript"
      [] extension(file_path) = "py" -> "python"
      [] OTHER -> "unknown"

\* ------------------------------------------------------------------ state
VARIABLES
    pc,                 \* where the call is
    file_path,          \* analyze_file's first argument
    language,           \* analyze_file's second argument, NoHint for None
    disk,               \* what the file holds, NoFile when it cannot be read
    parse_output,       \* what the selected parser gives for that text
    content,            \* the local `content`
    detected_language,  \* the local `detected_language`
    tree,               \* the local `tree`
    line_count, function_count, struct_count, dependencies,
    complexity_score, issues, metrics,      \* the locals of lines 82-90
    result,             \* what analyze_file returned
    formula_in,         \* the arguments the index formula is evaluated on
    formula_out,        \* and its value
    calls,              \* the calls running concurrently on one CodeAnalyzer
    analyzer,           \* the CodeAnalyzer: the grammar each parser field holds
    history,            \* the calls this CodeAnalyzer has finished, oldest first
    walk,               \* one cursor walk: the cursor, the frames, the tallies
    requested,          \* resolve_path's argument `path`
    resolved            \* what resolve_path returned

locals == <<content, detected_language, tree, line_count, function_count,
            struct_count, dependencies, complexity_score, issues, metrics>>
inputs == <<file_path, language, disk, parse_output>>
formula == <<formula_in, formula_out>>
others == <<analyzer, history, walk, requested, resolved>>
vars == <<pc, inputs, locals, result, formula, calls, others>>

NoHint == "<None>"
NoFile == "<no file>"
NoTree == [kind |-> <<>>, parent |-> <<>>]
NoMetrics == [cyclomatic_complexity |-> 0, lines_of_code |-> 0,
              comment_ratio |-> NaN, maintainability_index |-> NaN]
NoResult == [status |-> "none"]
Unset == "<unset>"

\* how many calls run concurrently on one CodeAnalyzer
MaxCalls == 2
Calls == 1..MaxCalls

\* no concurrent call has been started
NoCalls == [c \in Calls |-> [pc |-> "idle", language |-> Unset]]

Languages == {"rust", "javascript", "typescript", "python"}

\* lines 49-65: new() gives each parser field the grammar of its language
new == [rust_parser |-> "tree_sitter_rust",
        js_parser |-> "tree_sitter_javascript",
        python_parser |-> "tree_sitter_python"]

\* a parser that has lost its grammar: Parser::parse returns None on it
NoGrammar == "<no language>"

\* a call that leaves every parser without its grammar when it fails
after_call_poisoned(a, outcome) ==
    IF outcome.status = "err" THEN [p \in DOMAIN a |-> NoGrammar] ELSE a

\* what a call leaves of the CodeAnalyzer: analyze_file takes &self and
\* assigns to no field, whatever its outcome
after_call(a, outcome) == a

\* no walk in progress, no path being resolved
NoWalk == [stack |-> <<>>]
NoPath == "<no path>"

\* a constructed CodeAnalyzer that has served no call; nothing else going on
InitOthers ==
    /\ analyzer = new
    /\ history = <<>>
    /\ walk = NoWalk
    /\ requested = NoPath
    /\ resolved = NoPath

\* what Parser::parse gives: for an empty text the bare root, otherwise some
\* tree of the grammar or None (NoTree)
RootOnly(parser) == [kind |-> <<RootKind(parser)>>, parent |-> <<0>>]

parse(parser, text, max) ==
    IF text = "" THEN {RootOnly(parser)}
    ELSE Trees(parser, max) \cup {NoTree}

\* the language taken from the path even when a hint is given
resolve_language_by_path(hint, path) == detect_language(path)

\* the language analyze_file resolves: the hint, else the extension's
resolve_language(hint, path) ==
    IF hint = NoHint THEN detect_language(path) ELSE hint

\* ------------------------------------------------------------------ Init
Paths == {"main.rs", "src/app.js", "lib.mjs", "mod.ts", "run.py", ".rs",
          "src/.rs", "lib.rs/mod", "X.RS", "notes.xyz", "README"}
Hints == Languages \cup {"go"}
HintedPaths == {"main.rs", "notes.xyz"}
FileContents == {"",
                 "fn main() { if true { } }",
                 "import os\nfrom sys import path\n",
                 "const fs = require('fs');\nconsole.log(fs)"}

InitLocals ==
    /\ content = Unset
    /\ detected_language = Unset
    /\ tree = NoTree
    /\ line_count = 0
    /\ function_count = 0
    /\ struct_count = 0
    /\ dependencies = <<>>
    /\ complexity_score = NaN
    /\ issues = <<>>
    /\ metrics = NoMetrics
    /\ result = NoResult

InitFormula ==
    /\ formula_in = [lines_of_code |-> 0, cyclomatic_complexity |-> 0]
    /\ formula_out = NaN
    /\ calls = NoCalls
    /\ InitOthers

\* a call of analyze_file about to start
Init ==
    /\ pc = "read"
    /\ \/ language = NoHint /\ file_path \in Paths
       \/ language \in Hints /\ file_path \in HintedPaths
    /\ disk \in FileContents \cup {NoFile}
    /\ parse_output \in
         IF disk = NoFile \/ parser_for(resolve_language(language, file_path)) = NoParser
         THEN {NoTree}
         ELSE parse(parser_for(resolve_language(language, file_path)), disk,
                    MaxParsedNodes)
    /\ InitLocals
    /\ InitFormula

\* ------------------------------------------------------------------ analyze_file
Fail(message) ==
    /\ pc' = "failed"
    /\ result' = [status |-> "err", error |-> message]

\* line 68: fs::read_to_string(file_path).await?
read_file ==
    /\ pc = "read"
    /\ disk # NoFile
    /\ content' = disk
    /\ pc' = "detect"
    /\ UNCHANGED <<inputs, detected_language, tree, line_count, function_count,
                   struct_count, dependencies, complexity_score, issues, metrics,
                   result, formula, calls, others>>

read_failed ==
    /\ pc = "read"
    /\ disk = NoFile
    /\ Fail("io error")
    /\ UNCHANGED <<inputs, locals, formula, calls, others>>

\* line 69: language.unwrap_or_else(|| self.detect_language(file_path))
detect ==
    /\ pc = "detect"
    /\ detected_language' = resolve_language(language, file_path)
    /\ pc' = "select"
    /\ UNCHANGED <<inputs, content, tree, line_count, function_count,
                   struct_count, dependencies, complexity_score, issues, metrics,
                   result, formula, calls, others>>

\* lines 71-76: the match that selects the parser
select_parser ==
    /\ pc = "select"
    /\ parser_for(detected_language) # NoParser
    /\ pc' = "parse"
    /\ UNCHANGED <<inputs, locals, result, formula, calls, others>>

unsupported_language ==
    /\ pc = "select"
    /\ parser_for(detected_language) = NoParser
    /\ Fail("Unsupported language: " \o detected_language)
    /\ UNCHANGED <<inputs, locals, formula, calls, others>>

\* lines 78-79: parser.parse(&content, None).ok_or_else(..)?
parse_ok ==
    /\ pc = "parse"
    /\ analyzer[parser_for(detected_language)] # NoGrammar
    /\ parse_output # NoTree
    /\ tree' = parse_output
    /\ pc' = "line_count"
    /\ UNCHANGED <<inputs, content, detected_language, line_count, function_count,
                   struct_count, dependencies, complexity_score, issues, metrics,
                   result, formula, calls, others>>

parse_failed ==
    /\ pc = "parse"
    /\ analyzer[parser_for(detected_language)] = NoGrammar \/ parse_output = NoTree
    /\ Fail("Failed to parse code")
    /\ UNCHANGED <<inputs, locals, formula, calls, others>>

\* line 82
step_line_count ==
    /\ pc = "line_count"
    /\ line_count' = Len(lines(content))
    /\ pc' = "count_functions"
    /\ UNCHANGED <<inputs, content, detected_language, tree, function_count,
                   struct_count, dependencies, complexity_score, issues, metrics,
                   result, formula, calls, others>>

\* line 85
step_count_functions ==
    /\ pc = "count_functions"
    /\ function_count' = count_functions(tree, detected_language)
    /\ pc' = "count_structs"
    /\ UNCHANGED <<inputs, content, detected_language, tree, line_count,
                   struct_count, dependencies, complexity_score, issues, metrics,
                   result, formula, calls, others>>

\* line 86
step_count_structs ==
    /\ pc = "count_structs"
    /\ struct_count' = count_structs(tree, detected_language)
    /\ pc' = "extract_dependencies"
    /\ UNCHANGED <<inputs, content, detected_language, tree, line_count,
                   function_count, dependencies, complexity_score, issues, metrics,
                   result, formula, calls, others>>

\* line 87
step_extract_dependencies ==
    /\ pc = "extract_dependencies"
    /\ dependencies' = extract_dependencies(content, detected_language)
    /\ pc' = "calculate_complexity"
    /\ UNCHANGED <<inputs, content, detected_language, tree, line_count,
                   function_count, struct_count, complexity_score, issues, metrics,
                   result, formula, calls, others>>

\* line 88
step_calculate_complexity ==
    /\ pc = "calculate_complexity"
    /\ complexity_score' = calculate_complexity(tree, detected_language)
    /\ pc' = "find_issues"
    /\ UNCHANGED <<inputs, content, detected_language, tree, line_count,
                   function_count, struct_count, dependencies, issues, metrics,
                   result, formula, calls, others>>

\* line 89
step_find_issues ==
    /\ pc = "find_issues"
    /\ issues' = find_issues(content, detected_language)
    /\ pc' = "calculate_metrics"
    /\ UNCHANGED <<inputs, content, detected_language, tree, line_count,
                   function_count, struct_count, dependencies, complexity_score,
                   metrics, result, formula, calls, others>>

\* line 90
step_calculate_metrics ==
    /\ pc = "calculate_metrics"
    /\ metrics' = calculate_metrics(content, tree, detected_language)
    /\ pc' = "return"
    /\ UNCHANGED <<inputs, content, detected_language, tree, line_count,
                   function_count, struct_count, dependencies, complexity_score,
                   issues, result, formula, calls, others>>

\* lines 92-102: Ok(CodeAnalysisResult { .. })
return_result ==
    /\ pc = "return"
    /\ result' = [status |-> "ok",
                  file_path |-> file_path,
                  language |-> detected_language,
                  line_count |-> line_count,
                  function_count |-> function_count,
                  struct_count |-> struct_count,
                  complexity_score |-> complexity_score,
                  dependencies |-> dependencies,
                  issues |-> issues,
                  metrics |-> metrics]
    /\ pc' = "done"
    /\ UNCHANGED <<inputs, locals, formula, calls, others>>

\* lines 81-102, once the tree is there
Analysis ==
    \/ step_line_count
    \/ step_count_functions
    \/ step_count_structs
    \/ step_extract_dependencies
    \/ step_calculate_complexity
    \/ step_find_issues
    \/ step_calculate_metrics
    \/ return_result

Next ==
    \/ read_file
    \/ read_failed
    \/ detect
    \/ select_parser
    \/ unsupported_language
    \/ parse_ok
    \/ parse_failed
    \/ Analysis

Spec == Init /\ [][Next]_vars

\* ------------------------------------------------------------------ the walks alone
\* the state of a call right after line 79, for a given language, text and tree
AfterParse(path, lang, text, t) ==
    /\ pc = "line_count"
    /\ file_path = path
    /\ language = lang
    /\ disk = text
    /\ parse_output = t
    /\ content = text
    /\ detected_language = lang
    /\ tree = t
    /\ line_count = 0
    /\ function_count = 0
    /\ struct_count = 0
    /\ dependencies = <<>>
    /\ complexity_score = NaN
    /\ issues = <<>>
    /\ metrics = NoMetrics
    /\ result = NoResult
    /\ InitFormula

WalkContent == "fn main() { if true { } }"

\* every language, every tree of its grammar up to MaxNodes nodes below the root
InitWalk ==
    \E lang \in Languages :
        \E t \in Trees(parser_for(lang), MaxNodes) :
            AfterParse("main.rs", lang, WalkContent, t)

SpecWalk == InitWalk /\ [][Analysis]_vars

\* ------------------------------------------------------------------ the parse and the walks
\* a call that has selected the parser of lang and is about to parse text
BeforeParse(path, lang, text, out) ==
    /\ pc = "parse"
    /\ file_path = path
    /\ language = lang
    /\ disk = text
    /\ parse_output = out
    /\ content = text
    /\ detected_language = lang
    /\ tree = NoTree
    /\ line_count = 0
    /\ function_count = 0
    /\ struct_count = 0
    /\ dependencies = <<>>
    /\ complexity_score = NaN
    /\ issues = <<>>
    /\ metrics = NoMetrics
    /\ result = NoResult
    /\ InitFormula

\* every language, every outcome of the parse: no tree, or a tree of its
\* grammar up to MaxNodes nodes below the root, ERROR nodes included
InitParse ==
    \E lang \in Languages :
        \E out \in parse(parser_for(lang), WalkContent, MaxNodes) :
            BeforeParse("main.rs", lang, WalkContent, out)

ParseAndAnalyse == parse_ok \/ parse_failed \/ Analysis

SpecParse == InitParse /\ [][ParseAndAnalyse]_vars

\* ------------------------------------------------------------------ one cursor walk, step by step
\* a goto_parent that leaves the cursor where it is
goto_parent_stay(t, start, i) == i

\* TreeCursor::goto_parent for a cursor made by start.walk(): the parent of
\* node i, the cursor staying on the start node
goto_parent(t, start, i) == IF i = start THEN i ELSE t.parent[i]

\* count_recursive and complexity_recursive have one shape: look at the node
\* under the cursor, then goto_first_child, a call per child with
\* goto_next_sibling between the calls, then goto_parent. A frame is "enter"
\* before the look and "children" while the loop over the children runs.
WalkOf(t, start, wanted) ==
    [tree |-> t, start |-> start, wanted |-> wanted, cursor |-> start,
     stack |-> <<"enter">>, count |-> 0, visits |-> [i \in Nodes(t) |-> 0],
     descents |-> 0, ascents |-> 0, steps |-> 0]

\* every tree of the Rust grammar up to MaxNodes nodes below the root, the
\* walk started on any of its nodes
InitCursor ==
    /\ pc = "walk"
    /\ file_path = "main.rs"
    /\ language = NoHint
    /\ disk = NoFile
    /\ parse_output = NoTree
    /\ InitLocals
    /\ formula_in = [lines_of_code |-> 0, cyclomatic_complexity |-> 0]
    /\ formula_out = NaN
    /\ calls = NoCalls
    /\ analyzer = new
    /\ history = <<>>
    /\ requested = NoPath
    /\ resolved = NoPath
    /\ \E t \in Trees("rust_parser", MaxNodes) :
           \E start \in Nodes(t) : walk = WalkOf(t, start, "function_item")

Top == walk.stack[Len(walk.stack)]
Pop == SubSeq(walk.stack, 1, Len(walk.stack) - 1)

\* the look at the node under the cursor (lines 123-130, 241-247)
Looked ==
    [walk EXCEPT !.visits[walk.cursor] = @ + 1,
                 !.count = @ + (IF walk.tree.kind[walk.cursor] = walk.wanted
                                THEN 1 ELSE 0),
                 !.steps = @ + 1]

OnlyWalk == UNCHANGED <<pc, inputs, locals, result, formula, calls, analyzer,
                        history, requested, resolved>>

\* the node has a child: goto_first_child() is true, the first call is made
walk_first_child ==
    /\ walk.stack # <<>> /\ Top = "enter"
    /\ goto_first_child(walk.tree, walk.cursor) # 0
    /\ walk' = [Looked EXCEPT !.cursor = goto_first_child(walk.tree, walk.cursor),
                              !.descents = @ + 1,
                              !.stack = Append(Append(Pop, "children"), "enter")]
    /\ OnlyWalk

\* the node has no child: goto_first_child() is false, the call returns
walk_leaf ==
    /\ walk.stack # <<>> /\ Top = "enter"
    /\ goto_first_child(walk.tree, walk.cursor) = 0
    /\ walk' = [Looked EXCEPT !.stack = Pop]
    /\ OnlyWalk

\* a call on a child has returned and goto_next_sibling() is true
walk_next_sibling ==
    /\ walk.stack # <<>> /\ Top = "children"
    /\ goto_next_sibling(walk.tree, walk.cursor) # 0
    /\ walk' = [walk EXCEPT !.cursor = goto_next_sibling(walk.tree, walk.cursor),
                            !.steps = @ + 1,
                            !.stack = Append(walk.stack, "enter")]
    /\ OnlyWalk

\* the loop over the children is over: goto_parent(), the call returns
walk_goto_parent ==
    /\ walk.stack # <<>> /\ Top = "children"
    /\ goto_next_sibling(walk.tree, walk.cursor) = 0
    /\ walk' = [walk EXCEPT !.cursor = goto_parent(walk.tree, walk.start, walk.cursor),
                            !.ascents = @ + 1,
                            !.steps = @ + 1,
                            !.stack = Pop]
    /\ OnlyWalk

CursorWalk == walk_first_child \/ walk_leaf \/ walk_next_sibling \/ walk_goto_parent

SpecCursor == InitCursor /\ [][CursorWalk]_vars

\* ------------------------------------------------------------------ calls one after another
\* how many calls one CodeAnalyzer serves
MaxSequence == 3

\* the calls made: a path with or without a hint, on a file that cannot be
\* read or holds one of three texts
SequenceCalls == {<<"main.rs", NoHint>>, <<"notes.xyz", NoHint>>, <<"notes.xyz", "rust">>}
SequenceFiles == {NoFile, WalkContent, "use std::io;", "fn broken("}

\* a parser that gives the bare root once it has served an earlier call
ParseOfLater(parser, text) ==
    IF parser = NoParser \/ text \in {NoFile, "fn broken("} THEN NoTree
    ELSE IF text = WalkContent /\ history = <<>>
    THEN [kind |-> <<RootKind(parser), "function_item", "if_expression">>,
          parent |-> <<0, 1, 2>>]
    ELSE RootOnly(parser)

\* the parser as a function of the text: a tree for the first text, the bare
\* root for the second, None for the third
ParseOf(parser, text) ==
    IF parser = NoParser \/ text = NoFile THEN NoTree
    ELSE IF text = WalkContent
    THEN [kind |-> <<RootKind(parser), "function_item", "if_expression">>,
          parent |-> <<0, 1, 2>>]
    ELSE IF text = "use std::io;" THEN RootOnly(parser)
    ELSE NoTree

\* the arguments and the file of one call
Called(call, text) ==
    /\ file_path = call[1]
    /\ language = call[2]
    /\ disk = text
    /\ parse_output = ParseOf(parser_for(resolve_language(call[2], call[1])), text)

InitSequence ==
    /\ pc = "read"
    /\ InitLocals
    /\ InitFormula
    /\ \E call \in SequenceCalls : \E text \in SequenceFiles : Called(call, text)

\* the call has returned; the next call starts with locals of its own
next_call ==
    /\ pc \in {"done", "failed"}
    /\ Len(history) + 1 < MaxSequence
    /\ history' = Append(history, [file_path |-> file_path, language |-> language,
                                   disk |-> disk, result |-> result])
    /\ analyzer' = after_call(analyzer, result)
    /\ \E call \in SequenceCalls : \E text \in SequenceFiles :
           /\ file_path' = call[1]
           /\ language' = call[2]
           /\ disk' = text
           /\ parse_output' = ParseOf(parser_for(resolve_language(call[2], call[1])), text)
    /\ pc' = "read"
    /\ content' = Unset
    /\ detected_language' = Unset
    /\ tree' = NoTree
    /\ line_count' = 0
    /\ function_count' = 0
    /\ struct_count' = 0
    /\ dependencies' = <<>>
    /\ complexity_score' = NaN
    /\ issues' = <<>>
    /\ metrics' = NoMetrics
    /\ result' = NoResult
    /\ UNCHANGED <<formula, calls, walk, requested, resolved>>

Sequence == Next \/ next_call

SpecSequence == InitSequence /\ [][Sequence]_vars

\* ------------------------------------------------------------------ McpCoderServer::resolve_path
\* Path::components of a path string: the names between the "/", without the
\* empty ones and the "." ones; ".." is kept
RECURSIVE components(_)
components(s) ==
    IF s = "" THEN <<>>
    ELSE LET cut == find(s, "/")
             name == IF cut < 0 THEN s ELSE Sub(s, 1, cut)
             rest == IF cut < 0 THEN "" ELSE Sub(s, cut + 2, Len(s))
         IN (IF name \in {"", "."} THEN <<>> ELSE <<name>>) \o components(rest)

\* the file system the server runs on: directories and files by their
\* components from the root, and one symbolic link inside the base directory
base_directory == <<"srv", "base">>
Directories == {<<>>, <<"srv">>, <<"srv", "base">>, <<"srv", "base", "sub">>, <<"etc">>}
Files == {<<"srv", "base", "a.txt">>, <<"srv", "base", "sub", "a.txt">>,
          <<"etc", "a.txt">>}
Links == {<<"srv", "base", "link">>}
LinkTarget(p) == <<"etc">>

Parent(p) == IF p = <<>> THEN <<>> ELSE SubSeq(p, 1, Len(p) - 1)

NoSuchFile == <<"<io error>">>

\* fs::canonicalize: the components resolved from the root one by one, ".."
\* going to the parent and a link to its target; an error when a component
\* does not exist
RECURSIVE canonicalize_from(_, _)
canonicalize_from(at, parts) ==
    IF parts = <<>> THEN at
    ELSE IF Head(parts) = ".." THEN canonicalize_from(Parent(at), Tail(parts))
    ELSE LET next == Append(at, Head(parts))
         IN IF next \in Links THEN canonicalize_from(LinkTarget(next), Tail(parts))
            ELSE IF next \in Directories THEN canonicalize_from(next, Tail(parts))
            ELSE IF next \in Files /\ Tail(parts) = <<>> THEN next
            ELSE NoSuchFile

canonicalize(parts) == canonicalize_from(<<>>, parts)

\* Path::starts_with: the components of base are the first components of p
path_starts_with(p, base) ==
    Len(p) >= Len(base) /\ SubSeq(p, 1, Len(base)) = base

\* lines 459-475; an absolute path is kept, a relative one joined to the base
resolve_path(p) ==
    LET joined == IF starts_with(p, "/") THEN components(p)
                  ELSE base_directory \o components(p)
        canonical_base == canonicalize(base_directory)
        canonical_path == IF canonicalize(joined) = NoSuchFile THEN joined
                          ELSE canonicalize(joined)
    IN IF canonical_base = NoSuchFile THEN [status |-> "err", error |-> "io error"]
       ELSE IF ~path_starts_with(canonical_path, canonical_base)
       THEN [status |-> "err", error |-> "Path outside of allowed directory"]
       ELSE [status |-> "ok", path |-> canonical_path]

\* the names written one after another with "/" between them, after a prefix
RECURSIVE JoinNames(_)
JoinNames(parts) ==
    IF parts = <<>> THEN ""
    ELSE IF Len(parts) = 1 THEN parts[1]
    ELSE parts[1] \o "/" \o JoinNames(Tail(parts))
Join2(prefix, parts) == prefix \o JoinNames(parts)

\* the longest path a request is built of
MaxPathLen == 3
PathNames == {"..", "srv", "base", "etc", "sub", "a.txt", "new.txt", "link"}

\* the request paths: up to MaxPathLen names, relative or absolute
RequestPaths ==
    {Join2(abs, parts) : abs \in {"", "/"},
                         parts \in UNION {[1..n -> PathNames] : n \in 1..MaxPathLen}}

InitResolve ==
    /\ pc = "resolve_path"
    /\ file_path = "main.rs"
    /\ language = NoHint
    /\ disk = NoFile
    /\ parse_output = NoTree
    /\ InitLocals
    /\ formula_in = [lines_of_code |-> 0, cyclomatic_complexity |-> 0]
    /\ formula_out = NaN
    /\ calls = NoCalls
    /\ analyzer = new
    /\ history = <<>>
    /\ walk = NoWalk
    /\ requested \in RequestPaths
    /\ resolved = NoPath

Resolved(outcome) ==
    /\ pc = "resolve_path"
    /\ resolve_path(requested) = outcome
    /\ resolved' = outcome
    /\ pc' = "resolved"
    /\ UNCHANGED <<inputs, locals, result, formula, calls, analyzer, history,
                   walk, requested>>

\* line 474: Ok(canonical_path)
resolve_path_ok ==
    /\ resolve_path(requested).status = "ok"
    /\ Resolved(resolve_path(requested))

\* lines 470-472: the path is rejected
resolve_path_rejected ==
    /\ resolve_path(requested).status = "err"
    /\ Resolved(resolve_path(requested))

ResolvePath == resolve_path_ok \/ resolve_path_rejected

SpecResolve == InitResolve /\ [][ResolvePath]_vars

\* ------------------------------------------------------------------ concurrent calls
\* analyze_file takes &self: several calls can be in flight on one
\* CodeAnalyzer, each with the language line 69 resolves for it
InitConcurrent ==
    /\ pc = "read"
    /\ file_path = "main.rs"
    /\ language = NoHint
    /\ disk = NoFile
    /\ parse_output = NoTree
    /\ InitLocals
    /\ formula_in = [lines_of_code |-> 0, cyclomatic_complexity |-> 0]
    /\ formula_out = NaN
    /\ calls \in [Calls -> [pc : {"read"}, language : Languages \cup {"go"}]]
    /\ InitOthers

\* call c moves to its next position
Move(c, to) ==
    /\ calls' = [calls EXCEPT ![c].pc = to]
    /\ UNCHANGED <<pc, inputs, locals, result, formula, others>>

\* lines 68-69: the read completes and the language is resolved
call_read(c) ==
    /\ calls[c].pc = "read"
    /\ Move(c, "select")

\* lines 71-76: the match takes a shared reference to the language's parser
call_select_parser(c) ==
    /\ calls[c].pc = "select"
    /\ parser_for(calls[c].language) # NoParser
    /\ Move(c, "parse")

call_unsupported_language(c) ==
    /\ calls[c].pc = "select"
    /\ parser_for(calls[c].language) = NoParser
    /\ Move(c, "failed")

\* line 78: parser.parse(..) is entered; nothing is acquired before it
call_parse_begin(c) ==
    /\ calls[c].pc = "parse"
    /\ Move(c, "parsing")

\* lines 78-79: parser.parse(..) returns
call_parse_end(c) ==
    /\ calls[c].pc = "parsing"
    /\ Move(c, "analyse")

\* lines 81-102: the passes run on the call's own tree and text
call_return(c) ==
    /\ calls[c].pc = "analyse"
    /\ Move(c, "done")

Concurrent ==
    \E c \in Calls :
        \/ call_read(c)
        \/ call_select_parser(c)
        \/ call_unsupported_language(c)
        \/ call_parse_begin(c)
        \/ call_parse_end(c)
        \/ call_return(c)

SpecConcurrent == InitConcurrent /\ [][Concurrent]_vars

\* ------------------------------------------------------------------ the line passes alone
RustLines == {"use std::io;", "use std::fs;", "use serde;", "use crate::a;",
              "use super::b;", "use self::c;", "use selfish::d;",
              "  use tokio::fs;",
              "use anyhow::{anyhow, Result};", "fn main() {}", "// use x::y;",
              "  /// doc"}
JavaScriptLines == {"import React from \"react\";", "import x from 'vue'",
                    "import { a } from \"react\"", "import y from \"./local\"",
                    "import z from '../up';", "const fs = require(\"fs\");",
                    "const l = require('./lib')", "const p = require('fs')",
                    "import \"side\";", "let a = 1;", "  // note"}
PythonLines == {"import os", "import sys", "from sys import path",
                "from os import sep", "from . import x", "from .mod import y",
                "import os, sys", "import os.path", "  import json", "x = 1",
                "# import re", "  # note"}

LinesOf(lang) ==
    CASE lang = "rust" -> RustLines
      [] lang \in {"javascript", "typescript"} -> JavaScriptLines
      [] OTHER -> PythonLines

\* the lines joined by "\n"
RECURSIVE Join(_)
Join(ls) == IF ls = <<>> THEN ""
            ELSE IF Len(ls) = 1 THEN ls[1]
            ELSE ls[1] \o "\n" \o Join(Tail(ls))

Sources(lang) ==
    {Join(ls) : ls \in UNION {[1..n -> LinesOf(lang)] : n \in 0..MaxLines}}

\* every language, every source of up to MaxLines lines of its corpus
InitLines ==
    \E lang \in Languages :
        \E text \in Sources(lang) :
            \E t \in parse(parser_for(lang), text, 0) \ {NoTree} :
                AfterParse("main.rs", lang, text, t)

SpecLines == InitLines /\ [][Analysis]_vars

\* ------------------------------------------------------------------ the issue pass
\* c written n times
RECURSIVE Repeat(_, _)
Repeat(c, n) ==
    IF n = 0 THEN ""
    ELSE LET half == Repeat(c, n \div 2)
         IN IF n % 2 = 0 THEN half \o half ELSE half \o half \o c

\* lines at, just above and well above the length limit, a long line that
\* holds an unwrap call, and a line of 60 two-byte characters
LongLines == {Repeat("a", 100), Repeat("a", 101), Repeat("b", 150),
              Repeat("c", 95) \o ".unwrap()", Repeat("é", 60)}
RustIssueLines == {"let a = b.unwrap();", "x.unwrap().y.unwrap()", "é.unwrap()",
                   "// no call here", "unwrap_or(1)"}
JavaScriptIssueLines == {"console.log(a);", "  console.log(a); console.log(b)",
                         "let a = 1;"}
PythonIssueLines == {"print(1)", "  print(2)", "x = print(3)", "print(1); print(2)",
                     "x = 1"}

IssueLinesOf(lang) ==
    LongLines \cup
    (CASE lang = "rust" -> RustIssueLines
       [] lang \in {"javascript", "typescript"} -> JavaScriptIssueLines
       [] OTHER -> PythonIssueLines)

IssueSources(lang) ==
    {Join(ls) : ls \in UNION {[1..n -> IssueLinesOf(lang)] : n \in 0..MaxLines}}

\* every language, every source of up to MaxLines lines of its issue corpus
InitIssues ==
    \E lang \in Languages :
        \E text \in IssueSources(lang) :
            \E t \in parse(parser_for(lang), text, 0) \ {NoTree} :
                AfterParse("main.rs", lang, text, t)

SpecIssues == InitIssues /\ [][Analysis]_vars

\* ------------------------------------------------------------------ the index formula alone
InitIndex ==
    /\ pc = "formula"
    /\ file_path = "main.rs"
    /\ language = NoHint
    /\ disk = NoFile
    /\ parse_output = NoTree
    /\ InitLocals
    /\ formula_in \in [lines_of_code : 0..MaxLoc,
                       cyclomatic_complexity : {1 + k * CxStep : k \in 0..MaxCxSteps}]
    /\ formula_out = NaN
    /\ calls = NoCalls
    /\ InitOthers

\* lines 351-354 and 360 on the chosen arguments
evaluate_index ==
    /\ pc = "formula"
    /\ formula_out' = maintainability_index(formula_in.lines_of_code,
                                            formula_in.cyclomatic_complexity)
    /\ pc' = "formula_done"
    /\ UNCHANGED <<inputs, locals, result, formula_in, calls, others>>

SpecIndex == InitIndex /\ [][evaluate_index]_vars

\* ------------------------------------------------------------------ claims
\* the number of nodes of a tree whose kind is one of `kinds`
KindCount(t, kinds) == Cardinality({i \in Nodes(t) : t.kind[i] \in kinds})

\* an f64 holding the whole number n
Whole(n) == Fin(n * FScale)

ComplexityKnown == pc \in {"find_issues", "calculate_metrics", "return", "done"}
CountsKnown == pc \in {"extract_dependencies", "calculate_complexity", "find_issues",
                       "calculate_metrics", "return", "done"}
DependenciesKnown == pc \in {"calculate_complexity", "find_issues",
                             "calculate_metrics", "return", "done"}

\* C1: for a Rust source the complexity score is 1, plus 1 for every
\* if_expression, if_let_expression and match_expression node, plus 2 for every
\* while_expression, for_expression and loop_expression node of the tree.
C1_RustComplexity ==
    (ComplexityKnown /\ detected_language = "rust") =>
        complexity_score =
            Whole(1 + KindCount(tree, {"if_expression", "if_let_expression",
                                       "match_expression"})
                    + 2 * KindCount(tree, {"while_expression", "for_expression",
                                           "loop_expression"}))

\* C1 witness: a function holding a single `if` was analysed: one function,
\* score 2.
C1_Witness ==
    /\ pc = "done"
    /\ detected_language = "rust"
    /\ tree = [kind |-> <<"source_file", "function_item", "if_expression">>,
               parent |-> <<0, 1, 2>>]
    /\ result.function_count = 1
    /\ result.complexity_score = Whole(2)

\* C2: for a JavaScript or TypeScript source the complexity score is 1, plus 1
\* for every if_statement, switch_statement and try_statement node, plus 2 for
\* every while_statement and for_statement node.
C2_JavaScriptComplexity ==
    (ComplexityKnown /\ detected_language \in {"javascript", "typescript"}) =>
        complexity_score =
            Whole(1 + KindCount(tree, {"if_statement", "switch_statement",
                                       "try_statement"})
                    + 2 * KindCount(tree, {"while_statement", "for_statement"}))

\* C3: every result analyze_file returns has a complexity score of at least 1
\* and a cyclomatic complexity of at least 1.
C3_ComplexityAtLeastOne ==
    result.status = "ok" =>
        /\ FFinite(result.complexity_score)
        /\ result.complexity_score.v >= FScale
        /\ result.metrics.cyclomatic_complexity >= 1

\* C3 witness: a result was returned for a tree without any control flow node.
C3_Witness ==
    /\ result.status = "ok"
    /\ result.complexity_score = Whole(1)
    /\ result.metrics.cyclomatic_complexity = 1
    /\ Len(tree.kind) > 1

\* C4: the maintainability index is a finite number in [0, 100] for every
\* lines_of_code >= 0 and every complexity >= 1, lines_of_code = 0 included.
C4_IndexInRange ==
    pc = "formula_done" =>
        /\ FFinite(formula_out)
        /\ formula_out.v >= 0
        /\ formula_out.v <= 100 * FScale

\* C4 witness: the formula was evaluated for lines_of_code = 0, where the
\* unclamped value is NaN.
C4_Witness ==
    /\ pc = "formula_done"
    /\ formula_in.lines_of_code = 0
    /\ raw_maintainability(0, formula_in.cyclomatic_complexity) = NaN
    /\ FFinite(formula_out)

\* clamp(171 - 0.23 * complexity, 0, 100), in units of 1/FScale
ClampedAtOneLine(complexity) ==
    LET v == 171 * FScale - (23 * FScale * complexity) \div 100
    IN Fin(IF v < 0 THEN 0 ELSE IF v > 100 * FScale THEN 100 * FScale ELSE v)

\* C5: when lines_of_code is 0 the index is the one of a file with
\* lines_of_code = 1 and the same complexity: clamp(171 - 0.23 * complexity, 0, 100).
C5_ZeroLinesAsOne ==
    (pc = "formula_done" /\ formula_in.lines_of_code = 0) =>
        /\ formula_out = ClampedAtOneLine(formula_in.cyclomatic_complexity)
        /\ formula_out = maintainability_index(1, formula_in.cyclomatic_complexity)

\* C6: for each supported language the analysis of an empty source succeeds
\* with complexity 1, no function, no struct, no line, no line of code, no
\* dependency, no issue and a finite maintainability index in [0, 100].
C6_EmptySource ==
    (pc \in {"done", "failed"} /\ disk = ""
     /\ resolve_language(language, file_path) \in Languages) =>
        /\ result.status = "ok"
        /\ result.complexity_score = Whole(1)
        /\ result.function_count = 0
        /\ result.struct_count = 0
        /\ result.line_count = 0
        /\ result.metrics.lines_of_code = 0
        /\ result.dependencies = <<>>
        /\ result.issues = <<>>
        /\ FFinite(result.metrics.maintainability_index)
        /\ result.metrics.maintainability_index.v >= 0
        /\ result.metrics.maintainability_index.v <= 100 * FScale

\* C6 witness: an empty TypeScript source, the language found from the
\* extension, was analysed to the end.
C6_Witness ==
    /\ pc = "done"
    /\ disk = ""
    /\ language = NoHint
    /\ result.status = "ok"
    /\ result.language = "typescript"
    /\ result.line_count = 0

\* the declaration kinds the counts are about, per language
DeclaredFunctionKind(lang) ==
    CASE lang = "rust" -> "function_item"
      [] lang = "python" -> "function_definition"
      [] OTHER -> "function_declaration"

DeclaredTypeKind(lang) ==
    CASE lang = "rust" -> "struct_item"
      [] lang = "python" -> "class_definition"
      [] OTHER -> "class_declaration"

\* C7: function_count is the number of nodes of the whole tree whose kind is
\* the language's function declaration kind, and struct_count the number of
\* nodes whose kind is its type declaration kind, whatever their depth.
C7_CountsAreNodeCounts ==
    CountsKnown =>
        /\ function_count = KindCount(tree, {DeclaredFunctionKind(detected_language)})
        /\ struct_count = KindCount(tree, {DeclaredTypeKind(detected_language)})

\* C7 witness: a method inside an impl block, below the root's only child, was
\* counted.
C7_Witness ==
    /\ pc = "done"
    /\ tree = [kind |-> <<"source_file", "impl_item", "function_item">>,
               parent |-> <<0, 1, 2>>]
    /\ result.function_count = 1
    /\ result.struct_count = 0

\* C8: the dependencies are in strictly ascending order: sorted, no two equal.
C8_SortedNoDuplicates ==
    DependenciesKnown =>
        \A i \in 1..(Len(dependencies) - 1) :
            StrLess(dependencies[i], dependencies[i + 1])

\* C8 witness: two lines gave the same module and one entry was returned.
C8_Witness ==
    /\ pc = "done"
    /\ LET pushed == collect_dependencies(lines(content), detected_language)
       IN Len(pushed) = 2 /\ pushed[1] = pushed[2]
    /\ Len(result.dependencies) = 1

\* is this entry a relative or self reference of the language
RelativeEntry(dep, lang) ==
    IF lang = "rust"
    THEN split_first(dep, ";") \in {"crate", "super", "self"}
    ELSE starts_with(dep, ".")

\* C9: the dependencies hold no relative or self reference: no crate, super or
\* self of a Rust `use`, no JavaScript module that starts with ".", no module
\* of a relative Python import.
C9_NoRelativeReference ==
    DependenciesKnown =>
        \A i \in 1..Len(dependencies) :
            ~RelativeEntry(dependencies[i], detected_language)

IdentifierChars == "0123456789_abcdefghijklmnopqrstuvwxyz"
IsIdentifier(s) ==
    /\ s # ""
    /\ \A i \in 1..Len(s) : contains(IdentifierChars, Char(s, i))

\* the leading module identifier X of `import X ...` or `from X import ...`,
\* the empty string when the line is neither or names no module
RECURSIVE IdentifierPrefix(_)
IdentifierPrefix(s) ==
    IF s = "" \/ ~contains(IdentifierChars, Char(s, 1)) THEN ""
    ELSE Char(s, 1) \o IdentifierPrefix(Sub(s, 2, Len(s)))

LeadingModule(line) ==
    IF starts_with(trim(line), "import ")
    THEN IdentifierPrefix(trim(strip_prefix(trim(line), "import ")))
    ELSE IF starts_with(trim(line), "from ")
    THEN IdentifierPrefix(trim(strip_prefix(trim(line), "from ")))
    ELSE ""

\* C10: for a Python source the dependencies are exactly the leading module
\* identifiers of the import and from lines, each a bare identifier without a
\* trailing comma or a dotted sub-path.
C10_PythonModules ==
    (DependenciesKnown /\ detected_language = "python") =>
        /\ \A i \in 1..Len(dependencies) : IsIdentifier(dependencies[i])
        /\ {dependencies[i] : i \in 1..Len(dependencies)} =
               {LeadingModule(lines(content)[i]) : i \in 1..Len(lines(content))} \ {""}

\* the first path segment X of a line whose trimmed text is `use X::...` or
\* `use X;`, the empty string for any other line
FirstPathSegment(line) ==
    IF starts_with(trim(line), "use ")
    THEN IdentifierPrefix(trim(strip_prefix(trim(line), "use ")))
    ELSE ""

\* C11: for a Rust source the dependencies are exactly the first path segments
\* of the `use` lines other than crate, super and self, each a bare identifier
\* (no trailing ";"); a crate whose name only begins with self is kept.
C11_RustCrates ==
    (DependenciesKnown /\ detected_language = "rust") =>
        /\ \A i \in 1..Len(dependencies) : IsIdentifier(dependencies[i])
        /\ {dependencies[i] : i \in 1..Len(dependencies)} =
               {FirstPathSegment(lines(content)[i]) : i \in 1..Len(lines(content))}
                   \ {"", "crate", "super", "self"}

\* s without one trailing ";" and without the quote characters around it
Unquoted(s) ==
    LET t == IF s # "" /\ Char(s, Len(s)) = ";" THEN Sub(s, 1, Len(s) - 1) ELSE s
        u == trim(t)
    IN IF Len(u) >= 2 /\ Char(u, 1) \in {"\"", "'"} /\ Char(u, Len(u)) = Char(u, 1)
       THEN Sub(u, 2, Len(u) - 1) ELSE u

\* the module name X of `import ... from "X"` or `const ... = require("X")`,
\* the empty string for any other line
ModuleName(line) ==
    IF starts_with(trim(line), "import ") /\ contains(line, " from ")
    THEN Unquoted(trim(Sub(line, find(line, " from ") + 7, Len(line))))
    ELSE IF starts_with(trim(line), "const ") /\ contains(line, "require(")
            /\ contains(Sub(line, find(line, "require(") + 9, Len(line)), ")")
    THEN LET rest == Sub(line, find(line, "require(") + 9, Len(line))
         IN Unquoted(trim(Sub(rest, 1, find(rest, ")"))))
    ELSE ""

\* C12: for a JavaScript or TypeScript source every import-from line and every
\* require line whose module X does not start with "." contributes exactly X,
\* and no entry keeps a quote or punctuation character.
C12_JavaScriptModules ==
    (DependenciesKnown /\ detected_language \in {"javascript", "typescript"}) =>
        /\ \A i \in 1..Len(lines(content)) :
               LET x == ModuleName(lines(content)[i])
               IN (x # "" /\ ~starts_with(x, ".")) =>
                      x \in {dependencies[j] : j \in 1..Len(dependencies)}
        /\ \A j \in 1..Len(dependencies) :
               \A c \in {"\"", "'", ";", "(", ")", " "} : ~contains(dependencies[j], c)

IssuesKnown == pc \in {"calculate_metrics", "return", "done"}

\* the positions in issues of the long-line issues raised on line n
LongLineIssues(n) ==
    {j \in 1..Len(issues) : /\ issues[j].line = n
                            /\ starts_with(issues[j].message, "Line too long")}

\* C13: every line longer than 100 characters has exactly one issue, a warning
\* "Line too long (N characters)" with N the number of characters of the line,
\* at that line's 1-based number and column 100; a line of at most 100
\* characters has none.
C13_LongLines ==
    IssuesKnown =>
        \A n \in 1..Len(lines(content)) :
            LET line == lines(content)[n]
            IN IF Len(line) > 100
               THEN /\ Cardinality(LongLineIssues(n)) = 1
                    /\ \A j \in LongLineIssues(n) :
                           issues[j] = CodeIssue("warning",
                               "Line too long (" \o ToString(Len(line)) \o " characters)",
                               n, 100)
               ELSE LongLineIssues(n) = {}

\* the anti-pattern find_issues looks for in a source of the language
AntiPattern(lang) ==
    CASE lang = "rust" -> ".unwrap()"
      [] lang \in {"javascript", "typescript"} -> "console.log"
      [] OTHER -> "print("

\* the byte offsets at which p occurs in line
Occurrences(line, p) ==
    {len(Sub(line, 1, k)) :
         k \in {m \in 0..Len(line) : /\ m + Len(p) <= Len(line)
                                     /\ Sub(line, m + 1, m + Len(p)) = p}}

\* the positions in issues of the anti-pattern issues raised on line n
AntiPatternIssues(n) ==
    {j \in 1..Len(issues) : /\ issues[j].line = n
                            /\ ~starts_with(issues[j].message, "Line too long")}

\* C14: every occurrence of the language's anti-pattern has an issue of its own:
\* a line has as many anti-pattern issues as occurrences, and their columns are
\* the offsets of the occurrences.
C14_IssuePerOccurrence ==
    IssuesKnown =>
        \A n \in 1..Len(lines(content)) :
            LET found == Occurrences(lines(content)[n], AntiPattern(detected_language))
            IN /\ Cardinality(AntiPatternIssues(n)) = Cardinality(found)
               /\ {issues[j].column : j \in AntiPatternIssues(n)} = found

\* C15: for a Rust source every line that contains ".unwrap()" has a warning
\* with that line's number and the 0-based offset of the match as its column,
\* and a line that does not contain it has no such issue.
C15_RustUnwrap ==
    (IssuesKnown /\ detected_language = "rust") =>
        \A n \in 1..Len(lines(content)) :
            LET found == Occurrences(lines(content)[n], ".unwrap()")
            IN IF found # {}
               THEN \E j \in AntiPatternIssues(n) :
                        /\ issues[j].severity = "warning"
                        /\ issues[j].column \in found
                        /\ \A k \in found : issues[j].column <= k
               ELSE AntiPatternIssues(n) = {}

\* a two-line Rust source whose second line holds the call after a two-byte
\* character: the warning is on line 2 at byte offset 2
C15_Witness ==
    /\ IssuesKnown
    /\ detected_language = "rust"
    /\ content = "// no call here\né.unwrap()"
    /\ \E j \in 1..Len(issues) :
           issues[j] = CodeIssue("warning",
               "Consider using proper error handling instead of unwrap()", 2, 2)

\* C16: every issue's line is between 1 and the line count of the source.
C16_LineInRange ==
    IssuesKnown =>
        \A j \in 1..Len(issues) : 1 <= issues[j].line /\ issues[j].line <= line_count

\* a two-line source with an issue on its last line
C16_Witness ==
    /\ IssuesKnown
    /\ line_count = 2
    /\ \E j \in 1..Len(issues) : issues[j].line = 2

\* no parser has been invoked and no analysis pass has run
NothingAnalysed ==
    /\ tree = NoTree
    /\ line_count = 0 /\ function_count = 0 /\ struct_count = 0
    /\ dependencies = <<>> /\ complexity_score = NaN
    /\ issues = <<>> /\ metrics = NoMetrics

\* C17: once the language is resolved to one that is not rust, javascript,
\* typescript or python, the call can only fail with the unsupported-language
\* error: no parser is invoked, no pass runs, no result is returned, and the
\* failed call takes no further step.
C17_UnsupportedLanguage ==
    (detected_language # Unset /\ detected_language \notin Languages) =>
        /\ pc \in {"select", "failed"}
        /\ NothingAnalysed
        /\ pc = "select" => (result = NoResult /\ ENABLED unsupported_language
                             /\ ~ENABLED select_parser)
        /\ pc = "failed" =>
               /\ result = [status |-> "err",
                            error |-> "Unsupported language: " \o detected_language]
               /\ ~ENABLED Next

\* a call on notes.xyz without a hint has failed on the language "unknown"
C17_Witness ==
    /\ pc = "failed"
    /\ file_path = "notes.xyz" /\ language = NoHint
    /\ detected_language = "unknown"
    /\ result = [status |-> "err", error |-> "Unsupported language: unknown"]
    /\ tree = NoTree

\* s ends with suf
EndsWith(s, suf) == Len(s) >= Len(suf) /\ Sub(s, Len(s) - Len(suf) + 1, Len(s)) = suf

\* the path's file name is a non-empty stem followed by suf
NamedWith(path, suf) ==
    /\ EndsWith(path, suf)
    /\ Len(path) > Len(suf)
    /\ Char(path, Len(path) - Len(suf)) # "/"

\* the language the mapping gives a path, has(path, suf) saying that the path
\* carries the extension suf
MappedLanguage(path, has(_, _)) ==
    IF has(path, ".rs") THEN "rust"
    ELSE IF has(path, ".js") \/ has(path, ".mjs") THEN "javascript"
    ELSE IF has(path, ".ts") THEN "typescript"
    ELSE IF has(path, ".py") THEN "python"
    ELSE "unknown"

\* an unresolved language other than the four makes the call fail
FailsWhenUnknown ==
    detected_language \notin Languages =>
        /\ pc \in {"select", "failed"}
        /\ pc = "failed" =>
               result = [status |-> "err",
                         error |-> "Unsupported language: " \o detected_language]

\* C18 as stated: without a hint the language is rust for every path ending in
\* ".rs", the literal ".rs" included, javascript for ".js" and ".mjs",
\* typescript for ".ts", python for ".py", and otherwise a value on which the
\* call fails with the unsupported-language error.
C18_SuffixMapping ==
    (language = NoHint /\ detected_language # Unset) =>
        /\ detected_language = MappedLanguage(file_path, EndsWith)
        /\ FailsWhenUnknown

\* C18 amended: the same mapping for a file name with a non-empty stem before
\* the extension; a file name that is only ".rs" has no extension and falls
\* under "otherwise".
C18_DetectLanguage ==
    (language = NoHint /\ detected_language # Unset) =>
        /\ detected_language = MappedLanguage(file_path, NamedWith)
        /\ FailsWhenUnknown

\* the literal path ".rs" was resolved to "unknown" and the call failed on it
C18_Witness ==
    /\ language = NoHint
    /\ file_path = ".rs"
    /\ detected_language = "unknown"
    /\ pc = "failed"
    /\ result.status = "err"

HasErrorNode(t) == \E i \in Nodes(t) : t.kind[i] = "ERROR"

\* the kinds for which the walk adds 1 and those for which it adds 2
AddsOne == {"if_expression", "if_let_expression", "match_expression",
            "if_statement", "while_statement", "for_statement",
            "switch_statement", "try_statement"}
AddsTwo == {"while_expression", "for_expression", "loop_expression"}

\* C19: when the parser gives no tree the call fails with the parse-failure
\* error, returns no result and runs no pass; when it gives a tree with ERROR
\* nodes the call does not fail, the ERROR nodes add nothing to the counts or
\* the score, and the classified nodes of the whole tree, those below an ERROR
\* node included, are counted.
C19_ParseOutcome ==
    /\ parse_output = NoTree =>
           /\ pc \in {"parse", "failed"}
           /\ NothingAnalysed
           /\ pc = "parse" => result = NoResult
           /\ pc = "failed" =>
                  result = [status |-> "err", error |-> "Failed to parse code"]
    /\ (parse_output # NoTree /\ HasErrorNode(parse_output)) =>
           /\ pc # "failed"
           /\ pc = "done" => result.status = "ok"
           /\ CountsKnown =>
                  /\ function_count =
                         KindCount(tree, {DeclaredFunctionKind(detected_language)})
                  /\ struct_count =
                         KindCount(tree, {DeclaredTypeKind(detected_language)})
           /\ ComplexityKnown =>
                  complexity_score =
                      Whole(1 + KindCount(tree, AddsOne) + 2 * KindCount(tree, AddsTwo))

\* a Rust tree whose only function lies below an ERROR node was analysed: the
\* call succeeded with one function and the base score
C19_Witness ==
    /\ pc = "done"
    /\ tree = [kind |-> <<"source_file", "ERROR", "function_item">>,
               parent |-> <<0, 1, 2>>]
    /\ result.status = "ok"
    /\ result.function_count = 1
    /\ result.complexity_score = Whole(1)

\* the calls that are inside Parser::parse on the given parser
Parsing(parser) ==
    {c \in Calls : calls[c].pc = "parsing" /\ parser_for(calls[c].language) = parser}

\* C20: concurrent calls for the same language never overlap in their use of
\* that language's parser: at most one call at a time is inside a parse on any
\* one of the analyzer's parsers.
C20_ExclusiveParser ==
    \A parser \in {"rust_parser", "js_parser", "python_parser"} :
        Cardinality(Parsing(parser)) <= 1

\* the kinds the classifier table lists in a language's column
Listed(lang) ==
    CASE lang = "rust" ->
           {"function_item", "struct_item", "if_expression", "if_let_expression",
            "match_expression", "while_expression", "for_expression",
            "loop_expression"}
      [] lang \in {"javascript", "typescript"} ->
           {"function_declaration", "class_declaration", "if_statement",
            "switch_statement", "try_statement", "while_statement", "for_statement"}
      [] OTHER -> {"function_definition", "class_definition"}

\* C23: classification is per language: a tree none of whose nodes has a kind
\* listed in the resolved language's column has the base score 1, no function
\* and no type declaration; for Python, whose column lists no control-flow
\* kind, no node adds to the score.
C23_UnlistedKindsAddNothing ==
    (ComplexityKnown /\ \A i \in Nodes(tree) : tree.kind[i] \notin Listed(detected_language)) =>
        /\ complexity_score = Whole(1)
        /\ function_count = 0
        /\ struct_count = 0

MetricsKnown == pc \in {"return", "done"}

\* the comment marker of a language
CommentMarker(lang) == IF lang = "python" THEN "#" ELSE "//"

\* the number of lines of the source whose trimmed text starts with the marker
CommentLineCount ==
    Cardinality({i \in 1..Len(lines(content)) :
                     starts_with(trim(lines(content)[i]), CommentMarker(detected_language))})

\* C24: comment_ratio is the number of comment lines divided by the number of
\* lines, 0 for a source without lines, and always between 0 and 1.
C24_CommentRatio ==
    MetricsKnown =>
        /\ metrics.comment_ratio.c = "fin"
        /\ metrics.comment_ratio.v =
               (IF Len(lines(content)) = 0 THEN 0
                ELSE (CommentLineCount * FScale) \div Len(lines(content)))
        /\ 0 <= metrics.comment_ratio.v
        /\ metrics.comment_ratio.v <= FScale

\* a Rust source of an indented doc comment and a line of code: ratio 0.5
C24_Witness ==
    /\ pc = "done"
    /\ detected_language = "rust"
    /\ content = "  /// doc\nfn main() {}"
    /\ result.metrics.comment_ratio = Fin(FScale \div 2)

\* C25: lines_of_code is line_count minus the number of comment lines, and
\* lies between 0 and line_count.
C25_LinesOfCode ==
    MetricsKnown =>
        /\ metrics.lines_of_code = line_count - CommentLineCount
        /\ 0 <= metrics.lines_of_code
        /\ metrics.lines_of_code <= line_count

\* a Python source of two comment lines: two lines, no line of code
C25_Witness ==
    /\ pc = "done"
    /\ detected_language = "python"
    /\ content = "# import re\n  # note"
    /\ result.line_count = 2
    /\ result.metrics.lines_of_code = 0

\* the renumberings of the nodes of t that keep the root: each gives the
\* children of every node another order of visit
Renumberings(t) ==
    {f \in [Nodes(t) -> Nodes(t)] : f[1] = 1 /\ \A i, j \in Nodes(t) : f[i] = f[j] => i = j}

\* t with node i renumbered f[i]
Renumbered(t, f) ==
    LET back(j) == CHOOSE i \in Nodes(t) : f[i] = j
    IN [kind |-> [j \in Nodes(t) |-> t.kind[back(j)]],
        parent |-> [j \in Nodes(t) |->
                        IF t.parent[back(j)] = 0 THEN 0 ELSE f[t.parent[back(j)]]]]

\* C26: the score and the two counts of a tree are the same for every order in
\* which the children of each node are visited.
C26_OrderIndependent ==
    pc = "done" =>
        \A f \in Renumberings(tree) :
            LET other == Renumbered(tree, f)
            IN /\ calculate_complexity(other, detected_language) = result.complexity_score
               /\ count_functions(other, detected_language) = result.function_count
               /\ count_structs(other, detected_language) = result.struct_count

\* a Rust tree whose root has a function and an `if` as children, in that
\* order, was analysed; the other order gives the same count and score
C26_Witness ==
    /\ pc = "done"
    /\ tree = [kind |-> <<"source_file", "function_item", "if_expression">>,
               parent |-> <<0, 1, 1>>]
    /\ result.function_count = 1
    /\ result.complexity_score = Whole(2)
    /\ \E f \in Renumberings(tree) :
           Renumbered(tree, f).kind = <<"source_file", "if_expression", "function_item">>

\* C27: a hint is the resolved language whatever the path's extension, the
\* extension decides only when there is no hint, a successful result carries
\* the resolved language, and a source resolved as typescript is parsed by the
\* JavaScript parser.
C27_HintDecides ==
    detected_language # Unset =>
        /\ language # NoHint => detected_language = language
        /\ language = NoHint => detected_language = detect_language(file_path)
        /\ pc = "done" => (result.status = "ok" /\ result.language = detected_language)
        /\ (detected_language = "typescript" /\ tree # NoTree) =>
               tree \in Trees("js_parser", Len(tree.kind) - 1)

\* main.rs analysed with the hint "typescript": the result says typescript
\* and the tree is one of the JavaScript grammar
C27_Witness ==
    /\ pc = "done"
    /\ file_path = "main.rs"
    /\ language = "typescript"
    /\ result.language = "typescript"
    /\ tree.kind[1] = "program"

\* C28: the cyclomatic complexity of the metrics is the complexity score: the
\* score is a whole number of at least 1 and the conversion to an unsigned
\* integer keeps it.
C28_CyclomaticIsScore ==
    MetricsKnown =>
        /\ complexity_score.c = "fin"
        /\ complexity_score.v % FScale = 0
        /\ complexity_score.v >= FScale
        /\ metrics.cyclomatic_complexity * FScale = complexity_score.v

\* a Rust tree of a loop inside an `if` was analysed: score 4.0, cyclomatic
\* complexity 4
C28_Witness ==
    /\ pc = "done"
    /\ tree = [kind |-> <<"source_file", "if_expression", "loop_expression">>,
               parent |-> <<0, 1, 2>>]
    /\ result.complexity_score = Whole(4)
    /\ result.metrics.cyclomatic_complexity = 4

\* the nodes of the subtree of t rooted at s
RECURSIVE Below(_, _, _)
Below(t, s, i) == i = s \/ (i # 0 /\ t.parent[i] # 0 /\ Below(t, s, t.parent[i]))
Subtree(t, s) == {i \in Nodes(t) : Below(t, s, i)}

\* C29: a cursor walk ends after at most three steps per node of the subtree
\* and cannot stop before its end; it looks at no node twice and at no node
\* outside the subtree; at its end it has looked at every node of the subtree
\* once, the cursor is back on the start node, and every goto_first_child has
\* had its goto_parent.
C29_CursorWalk ==
    walk # NoWalk =>
        LET sub == Subtree(walk.tree, walk.start)
        IN /\ \A i \in Nodes(walk.tree) :
                  walk.visits[i] <= (IF i \in sub THEN 1 ELSE 0)
           /\ walk.steps <= 3 * Cardinality(sub)
           /\ walk.ascents <= walk.descents
           /\ walk.stack # <<>> => ENABLED CursorWalk
           /\ walk.stack = <<>> =>
                  /\ \A i \in sub : walk.visits[i] = 1
                  /\ walk.cursor = walk.start
                  /\ walk.ascents = walk.descents
                  /\ walk.count = count_recursive(walk.tree, walk.start, walk.wanted)

\* a walk from the root over a root with two children has ended: three
\* looks, one descent, one ascent, the cursor on the root
C29_Witness ==
    /\ walk # NoWalk
    /\ walk.stack = <<>>
    /\ walk.tree.parent = <<0, 1, 1>>
    /\ walk.start = 1
    /\ walk.cursor = 1
    /\ walk.visits = <<1, 1, 1>>
    /\ walk.descents = 1 /\ walk.ascents = 1

\* where the operating system finds or creates a path: ".." goes to the
\* parent, a link to its target, a name that does not exist yet is appended
RECURSIVE LocationFrom(_, _)
LocationFrom(at, parts) ==
    IF parts = <<>> THEN at
    ELSE IF Head(parts) = ".." THEN LocationFrom(Parent(at), Tail(parts))
    ELSE IF Append(at, Head(parts)) \in Links
    THEN LocationFrom(LinkTarget(Append(at, Head(parts))), Tail(parts))
    ELSE LocationFrom(Append(at, Head(parts)), Tail(parts))

\* C30: every path resolve_path returns lies inside the base directory, and a
\* request that leads outside it is rejected with the error "Path outside of
\* allowed directory".
C30_NoTraversal ==
    pc = "resolved" =>
        /\ resolved.status = "ok" =>
               path_starts_with(LocationFrom(<<>>, resolved.path), base_directory)
        /\ ~path_starts_with(LocationFrom(<<>>,
                                 IF starts_with(requested, "/")
                                 THEN components(requested)
                                 ELSE base_directory \o components(requested)),
                             base_directory) =>
               resolved = [status |-> "err",
                           error |-> "Path outside of allowed directory"]

\* the current call has returned or failed
Returned == pc \in {"done", "failed"}

\* C21: no call changes the CodeAnalyzer, and a call returns what every
\* earlier call with the same arguments on the same file returned, the first
\* call on the fresh CodeAnalyzer among them, whatever calls came between.
C21_NothingRetained ==
    /\ analyzer = new
    /\ Returned =>
           \A k \in 1..Len(history) :
               (/\ history[k].file_path = file_path
                /\ history[k].language = language
                /\ history[k].disk = disk) => history[k].result = result

\* main.rs was analysed on the fresh CodeAnalyzer, then a call failed, then
\* main.rs was analysed again with the same result
C21_Witness ==
    /\ pc = "done"
    /\ Len(history) = 2
    /\ history[1].file_path = "main.rs" /\ history[1].disk = WalkContent
    /\ history[1].result.status = "ok"
    /\ history[2].result.status = "err"
    /\ file_path = "main.rs" /\ language = NoHint /\ disk = WalkContent
    /\ result = history[1].result

\* the fields of a result other than the path it echoes
Analysed(r) == [r EXCEPT !.file_path = ""]

\* C22: two successful calls on the same content with the same resolved
\* language have results equal in every field of the analysis.
C22_Deterministic ==
    pc = "done" =>
        \A k \in 1..Len(history) :
            (/\ history[k].result.status = "ok"
             /\ history[k].disk = content
             /\ history[k].result.language = detected_language)
                => Analysed(history[k].result) = Analysed(result)

\* the same text analysed as main.rs and then as notes.xyz with the hint
\* "rust": two results that differ in the path only
C22_Witness ==
    /\ pc = "done"
    /\ Len(history) >= 1
    /\ history[1].file_path = "main.rs" /\ history[1].result.status = "ok"
    /\ file_path = "notes.xyz" /\ language = "rust"
    /\ disk = history[1].disk
    /\ result # history[1].result
    /\ Analysed(result) = Analysed(history[1].result)

====
